---------------------------- MODULE Spec2Model ----------------------------
(***************************************************************************)
(* Model of src/power-triangle.py: the Tk form of PowerTriangleSimulation  *)
(* (two validated entry fields, the Update button) and update_plot, which  *)
(* computes the power triangle and redraws the axes and the reference      *)
(* panel.                                                                  *)
(*                                                                         *)
(* Numbers.  The program computes in IEEE doubles.  The model computes the *)
(* real-number result of each operation exactly, as a fraction n/d in      *)
(* lowest terms, and keeps the values that are not real numbers apart:     *)
(* "inf" (with its sign), "nan", and "zde" for a Python float division by  *)
(* zero, which raises ZeroDivisionError.  Rounding to the nearest double   *)
(* is not modelled.  sqrt is exact, so the power factors the model draws   *)
(* are those whose sine is rational (0, 1, 3/5, 4/5, ...); Sqrt has no     *)
(* value elsewhere and TLC stops if it is ever asked for one.              *)
(*                                                                         *)
(* Text.  A field's content is a sequence of one-character strings.        *)
(***************************************************************************)
EXTENDS Integers, Sequences, FiniteSets, TLC

VARIABLES
    active_power,   \* text of the Tcl variable behind the "Active Power" entry
    power_factor,   \* text of the Tcl variable behind the "Power Factor" entry
    ax,             \* self.ax: limits, arrows, patches, labels of the axes
    ref_frame,      \* self.ref_frame.winfo_children(): the labels, in order
    locals,         \* update_plot's local variables in its latest call
    raised,         \* the exception the latest update_plot call ended with
    pc              \* position inside update_plot ("idle": not running)

vars == <<active_power, power_factor, ax, ref_frame, locals, raised, pc>>

---------------------------------------------------------------------------
(* Bounds of the model.                                                    *)

\* longest text an edit may leave in a field
MaxLen == 3

\* SpecCalc draws active powers n/d with n in 0..MaxActive
MaxActive == 12

\* SpecCalc draws power factors n/d with d in 1..MaxHyp and rational sine
MaxHyp == 13

---------------------------------------------------------------------------
(* Numbers                                                                 *)

Abs(i) == IF i < 0 THEN -i ELSE i

RECURSIVE GCD(_, _)
GCD(a, b) == IF b = 0 THEN a ELSE GCD(b, a % b)

\* the real number n/d (d # 0), in lowest terms with a positive denominator
Fin(n, d) ==
    LET g == GCD(Abs(n), Abs(d))
        s == IF d < 0 THEN -1 ELSE 1
    IN  [k |-> "fin", n |-> s * (n \div g), d |-> s * (d \div g)]

Int2Num(i) == [k |-> "fin", n |-> i, d |-> 1]
Zero == Int2Num(0)
One == Int2Num(1)
Inf(s) == [k |-> "inf", n |-> s, d |-> 0]
NaN == [k |-> "nan", n |-> 0, d |-> 0]
ZDE == [k |-> "zde", n |-> 0, d |-> 0]
Unset == [k |-> "unset", n |-> 0, d |-> 0]

IsFin(x) == x.k = "fin"
\* a value no arithmetic is defined on: it propagates
IsBad(x) == x.k \in {"nan", "zde", "unset"}
Poison(x, y) ==
    IF x.k = "zde" \/ y.k = "zde" THEN ZDE
    ELSE IF x.k = "unset" \/ y.k = "unset" THEN Unset
    ELSE NaN

Sign(x) == IF x.n > 0 THEN 1 ELSE IF x.n < 0 THEN -1 ELSE 0

\* x * y in IEEE arithmetic: inf * 0 is nan
Mul(x, y) ==
    IF IsBad(x) \/ IsBad(y) THEN Poison(x, y)
    ELSE IF IsFin(x) /\ IsFin(y) THEN Fin(x.n * y.n, x.d * y.d)
    ELSE IF Sign(x) * Sign(y) = 0 THEN NaN
    ELSE Inf(Sign(x) * Sign(y))

\* x / y as Python divides floats: a zero divisor raises ZeroDivisionError
Div(x, y) ==
    IF IsBad(x) \/ IsBad(y) THEN Poison(x, y)
    ELSE IF IsFin(y) /\ y.n = 0 THEN ZDE
    ELSE IF IsFin(x) /\ IsFin(y) THEN Fin(x.n * y.d, x.d * y.n)
    ELSE IF IsFin(x) THEN Zero
    ELSE IF IsFin(y) THEN Inf(Sign(x) * Sign(y))
    ELSE NaN

Add(x, y) ==
    IF IsBad(x) \/ IsBad(y) THEN Poison(x, y)
    ELSE IF IsFin(x) /\ IsFin(y) THEN Fin(x.n * y.d + y.n * x.d, x.d * y.d)
    ELSE IF IsFin(x) THEN y
    ELSE IF IsFin(y) THEN x
    ELSE IF x.n = y.n THEN x
    ELSE NaN

Neg(x) == IF IsBad(x) THEN x ELSE [x EXCEPT !.n = -x.n]
Sub(x, y) == Add(x, Neg(y))

\* x < y; every comparison with nan is false
Lt(x, y) ==
    IF IsBad(x) \/ IsBad(y) THEN FALSE
    ELSE IF IsFin(x) /\ IsFin(y) THEN x.n * y.d < y.n * x.d
    ELSE IF IsFin(x) THEN y.n > 0
    ELSE IF IsFin(y) THEN x.n < 0
    ELSE x.n < y.n
Gt(x, y) == Lt(y, x)
Eq(x, y) == ~IsBad(x) /\ ~IsBad(y) /\ x = y
Le(x, y) == Lt(x, y) \/ Eq(x, y)
Ge(x, y) == Le(y, x)

RECURSIVE ISqrtIn(_, _, _)
\* the largest k in lo..hi with k * k <= n (lo * lo <= n)
ISqrtIn(n, lo, hi) ==
    IF lo = hi THEN lo
    ELSE LET mid == (lo + hi + 1) \div 2
         IN  IF mid * mid <= n THEN ISqrtIn(n, mid, hi)
             ELSE ISqrtIn(n, lo, mid - 1)
ISqrt(n) == ISqrtIn(n, 0, IF n < 46340 THEN n ELSE 46340)
IsSquare(n) == n >= 0 /\ ISqrt(n) * ISqrt(n) = n

\* the square root of a fraction whose root is a fraction
Sqrt(x) ==
    IF ~IsFin(x) THEN (IF x.k = "inf" /\ x.n > 0 THEN x ELSE NaN)
    ELSE IF x.n < 0 THEN NaN
    ELSE CHOOSE r \in {Fin(ISqrt(x.n), ISqrt(x.d))} : Mul(r, r) = x


---------------------------------------------------------------------------
(* Text and its conversion to numbers                                      *)

Digits == <<"0", "1", "2", "3", "4", "5", "6", "7", "8", "9">>
IsDigit(c) == \E i \in 1..10 : Digits[i] = c
DigitVal(c) == (CHOOSE i \in 1..10 : Digits[i] = c) - 1

RECURSIVE Pow10(_)
Pow10(e) == IF e = 0 THEN 1 ELSE 10 * Pow10(e - 1)

RECURSIVE NumVal(_, _)
\* the value of a digit string in the given base
NumVal(s, base) ==
    IF s = <<>> THEN 0
    ELSE NumVal(SubSeq(s, 1, Len(s) - 1), base) * base + DigitVal(s[Len(s)])

\* what a failed conversion yields: ValueError in float(), TclError in getdouble
ParseError == [k |-> "err", n |-> 0, d |-> 0]

HasSign(t) == Len(t) >= 1 /\ t[1] = "-"
Unsigned(t) == IF HasSign(t) THEN Tail(t) ELSE t
Signed(t, x) == IF HasSign(t) THEN Neg(x) ELSE x

\* digits, with at most one "." among them and at least one digit in all
ParseDecimal(s) ==
    LET dots == {i \in 1..Len(s) : s[i] = "."}
        others == {i \in 1..Len(s) : s[i] # "."}
    IN  IF Cardinality(dots) > 1 \/ others = {}
           \/ \E i \in others : ~IsDigit(s[i])
        THEN ParseError
        ELSE IF dots = {} THEN Int2Num(NumVal(s, 10))
        ELSE LET p == CHOOSE i \in dots : TRUE
                 whole == SubSeq(s, 1, p - 1)
                 frac == SubSeq(s, p + 1, Len(s))
             IN  Fin(NumVal(whole \o frac, 10), Pow10(Len(frac)))

\* Python's float(text), on the model's alphabet: an optional "-", then a
\* decimal numeral, "inf" or "nan"
PyFloat(t) ==
    LET u == Unsigned(t)
    IN  IF u = <<"i", "n", "f">> THEN Signed(t, Inf(1))
        ELSE IF u = <<"n", "a", "n">> THEN NaN
        ELSE LET x == ParseDecimal(u)
             IN  IF x = ParseError THEN x ELSE Signed(t, x)

\* Tcl's conversion of a string to a double, which Variable.get() of a
\* DoubleVar applies (Tcl 8): a numeral of digits only that starts with "0"
\* is octal, "nan" and the empty string are refused
TclGetDouble(t) ==
    LET u == Unsigned(t)
        digitsOnly == u # <<>> /\ \A i \in 1..Len(u) : IsDigit(u[i])
    IN  IF u = <<"i", "n", "f">> THEN Signed(t, Inf(1))
        ELSE IF u = <<"n", "a", "n">> THEN ParseError
        ELSE IF digitsOnly /\ Len(u) >= 2 /\ u[1] = "0"
        THEN IF \E i \in 1..Len(u) : DigitVal(u[i]) >= 8 THEN ParseError
             ELSE Signed(t, Int2Num(NumVal(u, 8)))
        ELSE LET x == ParseDecimal(u)
             IN  IF x = ParseError THEN x ELSE Signed(t, x)

---------------------------------------------------------------------------
(* The validators (validate='key', validatecommand with %P)                *)

validate_active_power(new_value) ==
    IF new_value = <<>> THEN TRUE
    ELSE LET value == PyFloat(new_value)
         IN  IF value = ParseError THEN FALSE
             ELSE Ge(value, Zero)

validate_power_factor(new_value) ==
    IF new_value = <<>> THEN TRUE
    ELSE LET value == PyFloat(new_value)
         IN  IF value = ParseError THEN FALSE
             ELSE Le(Zero, value) /\ Le(value, One)

---------------------------------------------------------------------------
(* Angles and the calculation of update_plot                               *)

\* An angle in [0, pi] is held as the point (cos, sin) it marks on the unit
\* circle, which is exact for the angles the model meets.
HalfPi == [cos |-> Zero, sin |-> One]
NaNAngle == [cos |-> NaN, sin |-> NaN]
UnsetAngle == [cos |-> Unset, sin |-> Unset]

\* the angle in [-pi, 0] with the given cosine
ArcCosMirror(x) ==
    IF IsFin(x) /\ Le(Neg(One), x) /\ Le(x, One)
    THEN [cos |-> x, sin |-> Neg(Sqrt(Sub(One, Mul(x, x))))]
    ELSE NaNAngle

\* np.arccos: the angle in [0, pi] with the given cosine, nan outside [-1, 1]
ArcCos(x) ==
    IF IsFin(x) /\ Le(Neg(One), x) /\ Le(x, One)
    THEN [cos |-> x, sin |-> Sqrt(Sub(One, Mul(x, x)))]
    ELSE NaNAngle

\* np.tan; at pi/2 the real tangent has its pole
Tan(a) == IF a.cos = Zero THEN Inf(1) ELSE Div(a.sin, a.cos)

NoLocals ==
    [P_input |-> Unset, pf |-> Unset, P |-> Unset, Q |-> Unset, S |-> Unset,
     angle |-> UnsetAngle, max_value |-> Unset]

Args(P_input, pf) == [NoLocals EXCEPT !.P_input = P_input, !.pf = pf]

\* lines 76-84 with the apparent power taken as the product P * pf
CalculationProduct(P_input, pf) ==
    IF Eq(pf, Zero)
    THEN [Args(P_input, pf) EXCEPT
              !.P = Zero, !.Q = P_input, !.S = P_input, !.angle = HalfPi]
    ELSE LET P == P_input
             angle == ArcCos(pf)
         IN  [Args(P_input, pf) EXCEPT
                  !.P = P, !.angle = angle,
                  !.Q = Mul(P, Tan(angle)),
                  !.S = Mul(P, pf)]

\* lines 80-84 alone: the calculation without the test of line 76
CalculationNoZeroBranch(P_input, pf) ==
    LET P == P_input
        angle == ArcCos(pf)
    IN  [Args(P_input, pf) EXCEPT
             !.P = P, !.angle = angle,
             !.Q = Mul(P, Tan(angle)),
             !.S = Div(P, pf)]

\* update_plot, lines 76-84
Calculation(P_input, pf) ==
    IF Eq(pf, Zero)
    THEN [Args(P_input, pf) EXCEPT
              !.P = Zero, !.Q = P_input, !.S = P_input, !.angle = HalfPi]
    ELSE LET P == P_input
             angle == ArcCos(pf)
         IN  [Args(P_input, pf) EXCEPT
                  !.P = P, !.angle = angle,
                  !.Q = Mul(P, Tan(angle)),
                  !.S = Div(P, pf)]

\* Python's max(a, b, c): the first argument no later one is greater than
Max3(a, b, c) ==
    LET m == IF Gt(b, a) THEN b ELSE a
    IN  IF Gt(c, m) THEN c ELSE m

---------------------------------------------------------------------------
(* Formatting: f"{x:.2f}" and np.degrees                                   *)

\* n/d (d > 0) rounded to the nearest integer, ties to the even one
RoundHalfEven(n, d) ==
    LET q == n \div d
        r == n % d
    IN  IF 2 * r < d THEN q
        ELSE IF 2 * r > d THEN q + 1
        ELSE IF q % 2 = 0 THEN q ELSE q + 1

\* f"{x:.2f}": the number of hundredths printed; "inf" and "nan" print so
Format2(x) ==
    IF IsFin(x) THEN [k |-> "fin", centi |-> RoundHalfEven(100 * x.n, x.d)]
    ELSE [k |-> x.k, centi |-> Sign(x)]

NoValue == [k |-> "none", centi |-> 0]

\* Fixed point with 8 decimals, for the cosine of an angle given in degrees.
\* a * b / 10^8 for 0 <= a, b < 2.5 * 10^8, by halves of four digits
MulFix(a, b) ==
    LET ah == a \div 10000
        al == a % 10000
        bh == b \div 10000
        bl == b % 10000
    IN  ah * bh + (ah * bl + al * bh) \div 10000 + (al * bl) \div 100000000

\* j half-hundredths of a degree, in radians: j * pi / 36000
RadFix(j) == j * 8726 + (j * 64626) \div 100000

RECURSIVE CosTerms(_, _, _)
\* the Taylor series of the cosine from its i-th term t on (x2 = x * x)
CosTerms(x2, t, i) ==
    IF t = 0 \/ i > 12 THEN 0
    ELSE LET u == MulFix(t, x2) \div ((2 * i - 1) * (2 * i))
         IN  u - CosTerms(x2, u, i + 1)

CosFix(x) == 100000000 - CosTerms(MulFix(x, x), 100000000, 1)

\* floor(10^8 * n / d) for 0 <= n <= d
FracFix(n, d) ==
    ((n * 10000) \div d) * 10000 + (((n * 10000) % d) * 10000) \div d

RECURSIVE CentiSearch(_, _, _)
\* the least k in lo..hi with cos((k + 1/2) / 100 degrees) < c
CentiSearch(c, lo, hi) ==
    IF lo = hi THEN lo
    ELSE LET mid == (lo + hi) \div 2
         IN  IF CosFix(RadFix(2 * mid + 1)) < c THEN CentiSearch(c, lo, mid)
             ELSE CentiSearch(c, mid + 1, hi)

\* f"{np.degrees(angle):.2f}": the angle in hundredths of a degree
FormatDegrees(angle) ==
    IF ~IsFin(angle.cos) \/ ~IsFin(angle.sin) THEN [k |-> "nan", centi |-> 0]
    ELSE IF angle.sin = Zero
    THEN [k |-> "fin", centi |-> IF angle.cos.n > 0 THEN 0 ELSE 18000]
    ELSE IF angle.cos.n >= 0
    THEN [k |-> "fin",
          centi |-> CentiSearch(FracFix(angle.cos.n, angle.cos.d), 0, 9000)]
    ELSE [k |-> "fin",
          centi |-> 18000
              - CentiSearch(FracFix(-angle.cos.n, angle.cos.d), 0, 9000)]

---------------------------------------------------------------------------
(* The axes and the reference panel                                        *)

\* the axes after plt.subplots() or ax.clear(): nothing drawn
ClearedAxes ==
    [xlim |-> <<Zero, One>>, ylim |-> <<Zero, One>>,
     arrows |-> <<>>, patches |-> <<>>,
     xlabel |-> "", ylabel |-> "", title |-> "",
     aspect |-> "auto", grid |-> FALSE]

\* ax.arrow(x, y, dx, dy, head_width=..., head_length=..., fc=c, ec=c, linewidth=2)
Arrow(x, y, dx, dy, head_width, head_length, c) ==
    [x |-> x, y |-> y, dx |-> dx, dy |-> dy,
     head_width |-> head_width, head_length |-> head_length,
     fc |-> c, ec |-> c, linewidth |-> 2]

\* Arc((0, 0), width, height, theta1=0, theta2=np.degrees(angle), color='k');
\* theta2 is kept as the angle itself, whose form does not depend on the unit
Arc(width, height, angle) ==
    [xy |-> <<Zero, Zero>>, width |-> width, height |-> height,
     theta1 |-> Zero, theta2 |-> angle, color |-> "k"]

\* The polygon ax.arrow draws (FancyArrow, length_includes_head=False): the
\* shaft runs from (x, y) to (x + dx, y + dy), the head starts there,
\* head_width wide across the shaft, and ends in a tip head_length further on.
\* An arrow of length 0 draws nothing.
ArrowLength(a) == Sqrt(Add(Mul(a.dx, a.dx), Mul(a.dy, a.dy)))

ArrowStart(a) == <<a.x, a.y>>

ArrowEnd(a) == <<Add(a.x, a.dx), Add(a.y, a.dy)>>

ArrowTip(a) ==
    LET L == ArrowLength(a)
    IN  IF L = Zero THEN ArrowStart(a)
        ELSE <<Add(ArrowEnd(a)[1], Div(Mul(a.dx, a.head_length), L)),
               Add(ArrowEnd(a)[2], Div(Mul(a.dy, a.head_length), L))>>

ArrowHeadCorners(a) ==
    LET L == ArrowLength(a)
        half == Div(a.head_width, Int2Num(2))
    IN  IF L = Zero THEN {}
        ELSE {<<Sub(ArrowEnd(a)[1], Div(Mul(a.dy, half), L)),
                Add(ArrowEnd(a)[2], Div(Mul(a.dx, half), L))>>,
              <<Add(ArrowEnd(a)[1], Div(Mul(a.dy, half), L)),
                Sub(ArrowEnd(a)[2], Div(Mul(a.dx, half), L))>>}

\* the point p is inside the limits of the axes a
Inside(p, a) ==
    /\ Le(a.xlim[1], p[1]) /\ Le(p[1], a.xlim[2])
    /\ Le(a.ylim[1], p[2]) /\ Le(p[2], a.ylim[2])

\* ax.set_xlim(0, hi), ax.set_ylim(0, hi) for a finite hi: an interval with
\* equal ends is widened by 0.05 on both sides
Limits(hi) ==
    IF hi = Zero THEN <<Fin(-5, 100), Fin(5, 100)>> ELSE <<Zero, hi>>

\* update_plot, lines 86-110, without the margin around the triangle
DrawNoMargin(loc) ==
    LET max_value == Max3(loc.P, loc.Q, loc.S)
        lim == max_value
        head == Mul(max_value, Fin(2, 100))
        angle_radius == Mul(max_value, Fin(2, 10))
    IN  IF ~IsFin(lim)
        THEN [ax |-> ClearedAxes, max_value |-> max_value,
              raised |-> "ValueError"]
        ELSE [ax |->
                [xlim |-> Limits(lim), ylim |-> Limits(lim),
                 arrows |->
                    <<Arrow(Zero, Zero, loc.P, Zero, head, head, "r"),
                      Arrow(Zero, Zero, loc.P, loc.Q, head, head, "b"),
                      Arrow(loc.P, Zero, Zero, loc.Q, head, head, "g")>>,
                 patches |->
                    <<Arc(Mul(angle_radius, Int2Num(2)),
                          Mul(angle_radius, Int2Num(2)), loc.angle)>>,
                 xlabel |-> "Active Power (kW)",
                 ylabel |-> "Reactive Power (kVAr)",
                 title |-> "Power Triangle",
                 aspect |-> "equal", grid |-> TRUE],
              max_value |-> max_value, raised |-> "none"]

\* update_plot, lines 86-110, on the locals the calculation left.  set_xlim
\* refuses a limit that is not finite (ValueError), after ax.clear()
Draw(loc) ==
    LET max_value == Max3(loc.P, loc.Q, loc.S)
        lim == Mul(max_value, Fin(12, 10))
        head == Mul(max_value, Fin(2, 100))
        angle_radius == Mul(max_value, Fin(2, 10))
    IN  IF ~IsFin(lim)
        THEN [ax |-> ClearedAxes, max_value |-> max_value,
              raised |-> "ValueError"]
        ELSE [ax |->
                [xlim |-> Limits(lim), ylim |-> Limits(lim),
                 arrows |->
                    <<Arrow(Zero, Zero, loc.P, Zero, head, head, "r"),
                      Arrow(Zero, Zero, loc.P, loc.Q, head, head, "b"),
                      Arrow(loc.P, Zero, Zero, loc.Q, head, head, "g")>>,
                 patches |->
                    <<Arc(Mul(angle_radius, Int2Num(2)),
                          Mul(angle_radius, Int2Num(2)), loc.angle)>>,
                 xlabel |-> "Active Power (kW)",
                 ylabel |-> "Reactive Power (kVAr)",
                 title |-> "Power Triangle",
                 aspect |-> "equal", grid |-> TRUE],
              max_value |-> max_value, raised |-> "none"]

\* ttk.Label(self.ref_frame, text=...).grid(row=..., column=...): the text is
\* a fixed string s, around a formatted value v where there is one
Label(s, v, row, column) ==
    [s |-> s, v |-> v, row |-> row, column |-> column]

info_text ==
    "\nThe power factor (PF) evaluates the efficiency of electrical energy use in a system. It is the ratio between active power, which performs useful work, and apparent power, which includes both active and reactive power. Expressed as the cosine of the phase angle between current and voltage, a PF close to 1 indicates high efficiency in energy utilization.. "

\* update_plot, lines 113-134: the children of ref_frame after the old ones
\* are destroyed
RefLabels(loc) ==
    <<Label("Active Power (P):", NoValue, 0, 0),
      Label(" kW", Format2(loc.P), 0, 1),
      Label("Apparent Power (S):", NoValue, 1, 0),
      Label(" kVA", Format2(loc.S), 1, 1),
      Label("Reactive Power (Q):", NoValue, 2, 0),
      Label(" kVAr", Format2(loc.Q), 2, 1),
      Label("Power Factor:", NoValue, 3, 0),
      Label("", Format2(loc.pf), 3, 1),
      Label("Angle phi:", NoValue, 4, 0),
      Label("deg", FormatDegrees(loc.angle), 4, 1),
      Label(info_text, NoValue, 5, 0)>>

\* update_plot without lines 113-134: the reference panel is left as it was
update_plot_keep_labels(ap_text, pf_text, ax0, ref0) ==
    LET P_input == TclGetDouble(ap_text)
        pf == TclGetDouble(pf_text)
        unchanged(e) ==
            [ax |-> ax0, ref_frame |-> ref0, locals |-> NoLocals, raised |-> e]
    IN  IF P_input = ParseError \/ pf = ParseError THEN unchanged("TclError")
        ELSE LET loc == Calculation(P_input, pf)
             IN  IF loc.S = ZDE \/ loc.Q = ZDE
                 THEN unchanged("ZeroDivisionError")
                 ELSE LET d == Draw(loc)
                      IN  IF d.raised # "none"
                          THEN [ax |-> d.ax, ref_frame |-> ref0,
                                locals |-> NoLocals, raised |-> d.raised]
                          ELSE [ax |-> d.ax, ref_frame |-> ref0,
                                locals |->
                                    [loc EXCEPT !.max_value = d.max_value],
                                raised |-> "none"]

\* update_plot on the given field texts and widgets: what it leaves behind.
\* DoubleVar.get() raises TclError on text Tcl does not read as a double; a
\* call that raises keeps no locals.
update_plot(ap_text, pf_text, ax0, ref0) ==
    LET P_input == TclGetDouble(ap_text)
        pf == TclGetDouble(pf_text)
        unchanged(e) ==
            [ax |-> ax0, ref_frame |-> ref0, locals |-> NoLocals, raised |-> e]
    IN  IF P_input = ParseError \/ pf = ParseError THEN unchanged("TclError")
        ELSE LET loc == Calculation(P_input, pf)
             IN  IF loc.S = ZDE \/ loc.Q = ZDE
                 THEN unchanged("ZeroDivisionError")
                 ELSE LET d == Draw(loc)
                      IN  IF d.raised # "none"
                          THEN [ax |-> d.ax, ref_frame |-> ref0,
                                locals |-> NoLocals, raised |-> d.raised]
                          ELSE [ax |-> d.ax, ref_frame |-> RefLabels(loc),
                                locals |->
                                    [loc EXCEPT !.max_value = d.max_value],
                                raised |-> "none"]

---------------------------------------------------------------------------
(* The application                                                         *)

\* create_widgets: DoubleVar(value=100), DoubleVar(value=0.8), an empty
\* reference frame and fresh axes
create_widgets ==
    [active_power |-> <<"1", "0", "0">>, power_factor |-> <<"0", ".", "8">>,
     ax |-> ClearedAxes, ref_frame |-> <<>>]

\* __init__: create_widgets(), then update_plot()
Init ==
    LET w == create_widgets
        u == update_plot(w.active_power, w.power_factor, w.ax, w.ref_frame)
    IN  /\ active_power = w.active_power
        /\ power_factor = w.power_factor
        /\ ax = u.ax
        /\ ref_frame = u.ref_frame
        /\ locals = u.locals
        /\ raised = u.raised
        /\ pc = "idle"

\* an edit of the "Active Power" entry that would leave new_value in it: the
\* entry asks validate_active_power and refuses the edit when it says no
EditActivePower(new_value) ==
    /\ pc = "idle"
    /\ active_power' =
           IF validate_active_power(new_value) THEN new_value
           ELSE active_power
    /\ UNCHANGED <<power_factor, ax, ref_frame, locals, raised, pc>>

EditPowerFactor(new_value) ==
    /\ pc = "idle"
    /\ power_factor' =
           IF validate_power_factor(new_value) THEN new_value
           ELSE power_factor
    /\ UNCHANGED <<active_power, ax, ref_frame, locals, raised, pc>>

\* the Update button: command=self.update_plot.  Tk reports an exception of
\* the callback and goes on with the event loop.
Update ==
    /\ pc = "idle"
    /\ LET u == update_plot(active_power, power_factor, ax, ref_frame)
       IN  /\ ax' = u.ax
           /\ ref_frame' = u.ref_frame
           /\ locals' = u.locals
           /\ raised' = u.raised
    /\ UNCHANGED <<active_power, power_factor, pc>>

\* Texts a field is asked to take in one edit (typed over the selection or
\* pasted), of at most MaxLen characters.  The power factors among them have
\* a rational sine.
Corpus ==
    {<<>>, <<"0">>, <<"1">>, <<".">>, <<"5", "0">>, <<"-", "0">>,
     <<"-", "1">>, <<".", "8">>, <<"0", ".">>, <<"0", "8">>,
     <<"1", "0", "0">>, <<"0", ".", "6">>, <<"0", ".", "8">>,
     <<"1", ".", "5">>, <<"0", "1", "0">>, <<"i", "n", "f">>,
     <<"n", "a", "n">>,
     <<"0", ".", "2", "8">>, <<"0", ".", "9", "6">>, <<"1", "2", ".", "5">>,
     <<"-", "i", "n", "f">>, <<"1", ".", "0", "0">>}

Proposals == {t \in Corpus : Len(t) <= MaxLen}

Next ==
    \/ \E new_value \in Proposals : EditActivePower(new_value)
    \/ \E new_value \in Proposals : EditPowerFactor(new_value)
    \/ Update

Spec == Init /\ [][Next]_vars

---------------------------------------------------------------------------
(* update_plot step by step, on inputs drawn from bounded sets: a call that *)
(* has read P_input and pf (lines 73-74) computes (lines 76-84), then draws *)
(* and fills the reference panel (lines 86-134).                            *)

\* active powers: the integers and the tenths up to MaxActive
ActivePowers == {Fin(n, d) : n \in 0..MaxActive, d \in {1, 10}}

\* power factors in [0, 1] with a rational sine
PowerFactors ==
    {Fin(n, d) : n \in 0..MaxHyp, d \in 1..MaxHyp} \cap
    {Fin(c[1], c[2]) : c \in {x \in (0..MaxHyp) \X (1..MaxHyp) :
                                 x[1] <= x[2]
                                 /\ IsSquare(x[2] * x[2] - x[1] * x[1])}}

InitCalc ==
    LET w == create_widgets
        u == update_plot(w.active_power, w.power_factor, w.ax, w.ref_frame)
    IN  /\ active_power = w.active_power
        /\ power_factor = w.power_factor
        /\ ax = u.ax
        /\ ref_frame = u.ref_frame
        /\ raised = u.raised
        /\ pc = "calc"
        /\ \E P_input \in ActivePowers, pf \in PowerFactors :
               locals = Args(P_input, pf)

CalcStep ==
    /\ pc = "calc"
    /\ LET loc == Calculation(locals.P_input, locals.pf)
           zde == loc.S = ZDE \/ loc.Q = ZDE
       IN  /\ locals' = loc
           /\ raised' = IF zde THEN "ZeroDivisionError" ELSE "none"
           /\ pc' = IF zde THEN "idle" ELSE "draw"
    /\ UNCHANGED <<active_power, power_factor, ax, ref_frame>>

DrawStep ==
    /\ pc = "draw"
    /\ LET d == Draw(locals)
       IN  /\ ax' = d.ax
           /\ locals' = [locals EXCEPT !.max_value = d.max_value]
           /\ raised' = d.raised
           /\ ref_frame' =
                  IF d.raised = "none" THEN RefLabels(locals) ELSE ref_frame
    /\ pc' = "idle"
    /\ UNCHANGED <<active_power, power_factor>>

NextCalc == CalcStep \/ DrawStep

SpecCalc == InitCalc /\ [][NextCalc]_vars

---------------------------------------------------------------------------
(* The calculation (SpecCalc)                                              *)

\* the calculation of the call has run
Calculated == pc # "calc"

\* cos^2 + sin^2 = 1
OnUnitCircle(a) == Add(Mul(a.cos, a.cos), Mul(a.sin, a.sin)) = One

\* C1: for an active power A >= 0 and a power factor in (0, 1] the
\* calculation takes the general branch: P is A, S is A / pf (the number
\* whose product with pf is A), the angle is the arc cosine of pf (the angle
\* in [0, pi] whose cosine is pf) and Q is A times the tangent of that angle;
\* the angle is not the pi/2 of the pf == 0 branch.
C1_GeneralBranch ==
    (Calculated /\ Gt(locals.pf, Zero)) =>
        /\ raised = "none"
        /\ locals.P = locals.P_input
        /\ IsFin(locals.S)
        /\ Mul(locals.S, locals.pf) = locals.P_input
        /\ locals.angle.cos = locals.pf
        /\ Ge(locals.angle.sin, Zero)
        /\ OnUnitCircle(locals.angle)
        /\ IsFin(locals.Q)
        /\ Mul(locals.Q, locals.angle.cos)
               = Mul(locals.P_input, locals.angle.sin)
        /\ locals.angle # HalfPi

\* C1 witness: A = 12 and pf = 0.6 have given P = 12, S = 20 and Q = 16
C1_Witness ==
    /\ pc = "idle"
    /\ locals.P_input = Fin(12, 1) /\ locals.pf = Fin(3, 5)
    /\ locals.P = Fin(12, 1) /\ locals.S = Fin(20, 1) /\ locals.Q = Fin(16, 1)

\* C2: for a power factor of exactly 0 and an active power A >= 0 the
\* calculation gives P = 0, Q = A, S = A and the angle pi/2 (shown as 90.00
\* degrees), and raises nothing: it does not divide by the power factor.
C2_ZeroPowerFactor ==
    (Calculated /\ locals.pf = Zero) =>
        /\ raised = "none"
        /\ locals.P = Zero
        /\ locals.Q = locals.P_input
        /\ locals.S = locals.P_input
        /\ locals.angle = HalfPi
        /\ pc = "idle" => ref_frame[10].v = [k |-> "fin", centi |-> 9000]

\* C2 witness: A = 7 and pf = 0 have been calculated and drawn
C2_Witness ==
    /\ pc = "idle"
    /\ locals.P_input = Fin(7, 1) /\ locals.pf = Zero
    /\ locals.P = Zero /\ locals.Q = Fin(7, 1) /\ locals.S = Fin(7, 1)
    /\ ax.arrows[3].dy = Fin(7, 1)

Drawn == pc = "idle" /\ raised = "none"

\* the ends of the three arrows: P from the origin along the horizontal
\* axis, S from the origin to (P, Q), Q from (P, 0) up to (P, Q)
ArrowsOfTriangle ==
    /\ Len(ax.arrows) = 3
    /\ ArrowStart(ax.arrows[1]) = <<Zero, Zero>>
    /\ ArrowEnd(ax.arrows[1]) = <<locals.P, Zero>>
    /\ ArrowStart(ax.arrows[2]) = <<Zero, Zero>>
    /\ ArrowEnd(ax.arrows[2]) = <<locals.P, locals.Q>>
    /\ ArrowStart(ax.arrows[3]) = <<locals.P, Zero>>
    /\ ArrowEnd(ax.arrows[3]) = <<locals.P, locals.Q>>

\* C9 as stated: both axes span 0 to 1.2 * max(P, Q, S), that maximum is S,
\* the arrows run between the corners of the triangle, and every arrow with
\* its head lies within the limits of the axes.
C9_AsStated ==
    Drawn =>
        /\ locals.max_value = locals.S
        /\ ax.xlim = <<Zero, Mul(locals.max_value, Fin(12, 10))>>
        /\ ax.ylim = <<Zero, Mul(locals.max_value, Fin(12, 10))>>
        /\ ArrowsOfTriangle
        /\ \A i \in 1..Len(ax.arrows) :
               \A p \in {ArrowStart(ax.arrows[i]), ArrowEnd(ax.arrows[i]),
                         ArrowTip(ax.arrows[i])}
                        \cup ArrowHeadCorners(ax.arrows[i]) :
                   Inside(p, ax)

\* C9, amended: max(P, Q, S) is S; when it is positive both axes span 0 to
\* 1.2 * S, and when it is 0 they span -0.05 to 0.05; the arrows run between
\* the corners of the triangle; of every arrow the start, the end and the tip
\* of the head lie within the limits of the axes, the head being 0.02 * S
\* long and 0.02 * S wide across the arrow.
C9_CentreLinesInside ==
    Drawn =>
        /\ locals.max_value = locals.S
        /\ Gt(locals.S, Zero) =>
               /\ ax.xlim = <<Zero, Mul(locals.S, Fin(12, 10))>>
               /\ ax.ylim = <<Zero, Mul(locals.S, Fin(12, 10))>>
        /\ locals.S = Zero =>
               /\ ax.xlim = <<Fin(-5, 100), Fin(5, 100)>>
               /\ ax.ylim = <<Fin(-5, 100), Fin(5, 100)>>
        /\ ArrowsOfTriangle
        /\ \A i \in 1..Len(ax.arrows) :
               /\ ax.arrows[i].head_length = Mul(locals.S, Fin(2, 100))
               /\ ax.arrows[i].head_width = Mul(locals.S, Fin(2, 100))
               /\ Inside(ArrowStart(ax.arrows[i]), ax)
               /\ Inside(ArrowEnd(ax.arrows[i]), ax)
               /\ Inside(ArrowTip(ax.arrows[i]), ax)

\* C9 witness: the triangle 4, 3, 5 is drawn on axes from 0 to 6, and the
\* head of the arrow of P reaches below the horizontal axis
C9_Witness ==
    /\ Drawn
    /\ locals.P = Fin(4, 1) /\ locals.Q = Fin(3, 1) /\ locals.S = Fin(5, 1)
    /\ ax.xlim = <<Zero, Fin(6, 1)>>
    /\ ArrowTip(ax.arrows[2]) = <<Fin(102, 25), Fin(153, 50)>>
    /\ <<Fin(4, 1), Fin(-1, 20)>> \in ArrowHeadCorners(ax.arrows[1])

---------------------------------------------------------------------------
(* The form (Spec)                                                         *)

\* the text t is empty or reads as a real number from lo to hi (hi = Inf(1):
\* no upper end)
HoldsReal(t, lo, hi) ==
    \/ t = <<>>
    \/ /\ IsFin(PyFloat(t))
       /\ Le(lo, PyFloat(t))
       /\ Le(PyFloat(t), hi)

\* C3 as stated: after any sequence of edits the active-power field is empty
\* or holds a text that reads as a real number >= 0, and the power-factor
\* field is empty or holds a text that reads as a real number in [0, 1];
\* every other edit is refused.
C3_FieldsHoldReals ==
    /\ HoldsReal(active_power, Zero, Inf(1))
    /\ HoldsReal(power_factor, Zero, One)

\* C4 as stated: in every state the accepted edits lead to, an empty field
\* included, the Update button raises no error.
C4_UpdateNeverRaises == raised = "none"

\* the display update_plot leaves for the numbers Tcl reads in the two texts
DisplayOf(ap_text, pf_text) ==
    LET loc == Calculation(TclGetDouble(ap_text), TclGetDouble(pf_text))
    IN  [ax |-> Draw(loc).ax, ref_frame |-> RefLabels(loc)]

\* C5: an edit of a field changes neither the diagram nor the panel; they
\* change only in a step of Update, and after an Update that did not raise
\* they are the ones calculated from the texts the fields hold at that time.
C5_DisplayFollowsUpdate ==
    [][/\ (active_power' # active_power \/ power_factor' # power_factor)
            => (ax' = ax /\ ref_frame' = ref_frame)
       /\ (ax' # ax \/ ref_frame' # ref_frame)
            => (active_power' = active_power /\ power_factor' = power_factor)
       /\ (locals' # locals \/ raised' # raised \/ ax' # ax
              \/ ref_frame' # ref_frame) /\ raised' = "none"
            => /\ ax' = DisplayOf(active_power', power_factor').ax
               /\ ref_frame'
                      = DisplayOf(active_power', power_factor').ref_frame]_vars

\* C5 witness: the fields were edited to 50 and 0.6 and Update has shown
\* P = 50.00, S = 83.33 and Q = 66.67
C5_Witness ==
    /\ active_power = <<"5", "0">> /\ power_factor = <<"0", ".", "6">>
    /\ raised = "none"
    /\ locals.P_input = Fin(50, 1) /\ locals.pf = Fin(3, 5)
    /\ ref_frame[2].v.centi = 5000
    /\ ref_frame[4].v.centi = 8333
    /\ ref_frame[6].v.centi = 6667
    /\ ArrowEnd(ax.arrows[2]) = <<Fin(50, 1), Fin(200, 3)>>

\* the finite numbers Update can read in a field
InputValues ==
    {v \in {TclGetDouble(t) :
              t \in Proposals \cup {create_widgets.active_power,
                                    create_widgets.power_factor}} : IsFin(v)}

\* C6 as stated: the diagram and the panel always come from one calculation
\* on one pair of inputs, also after an Update that failed: never a cleared
\* or new diagram beside a panel that is still the old one.
C6_DisplayFromOnePair ==
    \E P_input \in InputValues, pf \in InputValues :
        /\ Le(pf, One)
        /\ LET loc == Calculation(P_input, pf)
           IN  /\ ax = Draw(loc).ax
               /\ ref_frame = RefLabels(loc)

\* C7 as stated: Update twice on unchanged fields leaves what Update once
\* leaves; the axes always hold exactly three arrows and one arc, and the
\* panel always holds the same labels at the same places.
C7_IdempotentAndFixedCounts ==
    /\ LET once == update_plot(active_power, power_factor, ax, ref_frame)
           twice == update_plot(active_power, power_factor,
                                once.ax, once.ref_frame)
       IN  twice = once
    /\ Len(ax.arrows) = 3
    /\ Len(ax.patches) = 1
    /\ Len(ref_frame) = Len(RefLabels(NoLocals))
    /\ \A i \in 1..Len(ref_frame) :
           /\ ref_frame[i].s = RefLabels(NoLocals)[i].s
           /\ ref_frame[i].row = RefLabels(NoLocals)[i].row
           /\ ref_frame[i].column = RefLabels(NoLocals)[i].column

\* C10 as stated: the form starts with the defaults 100 and 0.8 and shows
\* their result at once (P = 100.00, S = 125.00, Q = 75.00, pf 0.80, angle
\* 36.87 degrees), and no state has an empty diagram or an empty panel.
C10_NeverEmpty ==
    /\ ax.arrows # <<>>
    /\ ax.patches # <<>>
    /\ ref_frame # <<>>
    /\ (locals.P_input = Fin(100, 1) /\ locals.pf = Fin(4, 5)) =>
           /\ ref_frame[2].v = [k |-> "fin", centi |-> 10000]
           /\ ref_frame[4].v = [k |-> "fin", centi |-> 12500]
           /\ ref_frame[6].v = [k |-> "fin", centi |-> 7500]
           /\ ref_frame[8].v = [k |-> "fin", centi |-> 80]
           /\ ref_frame[10].v = [k |-> "fin", centi |-> 3687]

===========================================================================
